---- MODULE Spec2Model ----
(***************************************************************************)
(* A model of props-rs: the nom grammar of src/src/parser.rs, the public   *)
(* entry points parse and to_map of src/src/lib.rs.                        *)
(*                                                                         *)
(* An input is a sequence of bytes (numbers 0..255).  A position p in an   *)
(* input s stands for the remaining slice s[p..]; p = Len(s)+1 is the      *)
(* empty slice.  A parser takes (s, p) and returns a record                *)
(*   [ok |-> TRUE,  pos |-> the position after what it consumed, val |-> v]*)
(*   [ok |-> FALSE, pos |-> p, val |-> <<>>]     (nom's Err::Error)        *)
(* Every parser of the grammar is a nom "complete" parser, so Err::Error   *)
(* is the only error there is: nothing returns Incomplete or Failure.      *)
(* A char is the number of the byte it was read from (u8 as char).         *)
(***************************************************************************)
EXTENDS Integers, Sequences, FiniteSets

\* ------------------------------------------------------------------ bytes
TAB == 9
LF == 10
FF == 12
CR == 13
SP == 32
BANG == 33
HASH == 35
COLON == 58
EQUALS == 61
BSLASH == 92
LOWER_A == 97
LOWER_B == 98
LOWER_F == 102
LOWER_N == 110
LOWER_R == 114
LOWER_T == 116
LOWER_U == 117

\* one_of(" \t\u{c}")
Whitespaces == {SP, TAB, FF}
\* none_of(":=\n\r \t\u{c}\\")
NotInKey == {COLON, EQUALS, LF, CR, SP, TAB, FF, BSLASH}
\* none_of("\n\r\\")
NotInValue == {LF, CR, BSLASH}
\* none_of("u\r\n")
NotEscapable == {LOWER_U, CR, LF}
\* one_of("#!")
CommentMarks == {HASH, BANG}
\* one_of(":=")
Separators == {COLON, EQUALS}

\* ------------------------------------------------------- parser results
Ok(p, v) == [ok |-> TRUE, pos |-> p, val |-> v]
Err(p) == [ok |-> FALSE, pos |-> p, val |-> <<>>]

\* Option<T>: None is the empty sequence, Some(x) the one-element sequence.
None == <<>>
Some(x) == <<x>>

\* Iterator::flatten over a sequence of sequences, then collect.
RECURSIVE Flatten(_)
Flatten(ss) == IF ss = <<>> THEN <<>> ELSE Head(ss) \o Flatten(Tail(ss))

\* ------------------------------------------------- nom's basic parsers
\* one_of(set): the next byte, when it is in the set.
one_of(set, s, p) ==
    IF p <= Len(s) /\ s[p] \in set THEN Ok(p + 1, s[p]) ELSE Err(p)

\* none_of(set): the next byte, when there is one and it is not in the set.
none_of(set, s, p) ==
    IF p <= Len(s) /\ s[p] \notin set THEN Ok(p + 1, s[p]) ELSE Err(p)

\* tag(t): the bytes t, when the input starts with them.
tag(t, s, p) ==
    IF p + Len(t) - 1 <= Len(s) /\ \A k \in 1..Len(t) : s[p + k - 1] = t[k]
    THEN Ok(p + Len(t), t) ELSE Err(p)

\* eof: succeeds on the empty slice, consuming nothing.
eof(s, p) == IF p > Len(s) THEN Ok(p, <<>>) ELSE Err(p)

\* take_till(cond): the longest prefix with no byte that cond holds of; never
\* fails.
take_till(cond(_), s, p) ==
    LET ends == {q \in p..(Len(s) + 1) :
                    /\ \A k \in p..(q - 1) : ~cond(s[k])
                    /\ (q <= Len(s) => cond(s[q]))}
        q == CHOOSE q \in ends : TRUE
    IN Ok(q, SubSeq(s, p, q - 1))

\* ------------------------------------------------- nom's combinators
\* The combinators parser.rs imports from nom (src/src/parser.rs, lines 2-7),
\* each with the behaviour of nom's complete (non-streaming) version.
\* let x = v; k(x): v is evaluated once, whatever k does with it.
bind(v, k(_)) == CHOOSE y \in {k(x) : x \in {v}} : TRUE

\* The ? operator on a parser's result r: an error returns at once,
\* otherwise the function goes on (k) with what the parser returned.
and_then(r, k(_)) == bind(r, LAMBDA x : IF x.ok THEN k(x) ELSE Err(x.pos))

\* value(v, f): f's result with v for its value.
value(v, f(_, _), s, p) ==
    bind(f(s, p), LAMBDA r : IF r.ok THEN Ok(r.pos, v) ELSE r)

\* opt(f): Some(f's value), or None with nothing consumed when f fails.
opt(f(_, _), s, p) ==
    bind(f(s, p), LAMBDA r : IF r.ok THEN Ok(r.pos, Some(r.val)) ELSE Ok(p, None))

\* complete(f): Incomplete becomes Error; f's result otherwise.
complete(f(_, _), s, p) == f(s, p)

\* alt((f, g)): the first of f, g to succeed.
alt2(f(_, _), g(_, _), s, p) ==
    bind(f(s, p), LAMBDA r : IF r.ok THEN r ELSE g(s, p))

\* alt((f, g, h)): the first of f, g, h to succeed.
alt3(f(_, _), g(_, _), h(_, _), s, p) ==
    bind(f(s, p), LAMBDA r : IF r.ok THEN r ELSE alt2(g, h, s, p))

\* many0(f): f until it fails; an f that succeeds without consuming is an
\* error (nom's infinite loop check).
many0(f(_, _), s, p) ==
    LET loop[i \in p..(Len(s) + 1)] ==
            bind(f(s, i), LAMBDA r :
                IF ~r.ok THEN Ok(i, <<>>)
                ELSE IF r.pos = i THEN Err(i)
                ELSE bind(loop[r.pos], LAMBDA t :
                        IF t.ok THEN Ok(t.pos, <<r.val>> \o t.val) ELSE Err(p)))
    IN loop[p]

\* many1(f): f once (no check on what it consumed), then as many0.
many1(f(_, _), s, p) ==
    and_then(f(s, p), LAMBDA r :
    and_then(many0(f, s, r.pos), LAMBDA t :
    Ok(t.pos, <<r.val>> \o t.val)))

\* The loop of separated_list0 and separated_list1 after the first element:
\* (sep f)*, giving up the separator when no element follows it; a separator
\* that consumes nothing is an error.
separated_tail(sep(_, _), f(_, _), s, p) ==
    LET loop[i \in p..(Len(s) + 1)] ==
            bind(sep(s, i), LAMBDA r :
                IF ~r.ok THEN Ok(i, <<>>)
                ELSE IF r.pos = i THEN Err(i)
                ELSE bind(f(s, r.pos), LAMBDA e :
                        IF ~e.ok THEN Ok(i, <<>>)
                        ELSE bind(loop[e.pos], LAMBDA t :
                                IF t.ok THEN Ok(t.pos, <<e.val>> \o t.val)
                                ELSE Err(p))))
    IN loop[p]

\* separated_list0(sep, f): no element is the empty list.
separated_list0(sep(_, _), f(_, _), s, p) ==
    bind(f(s, p), LAMBDA r :
        IF ~r.ok THEN Ok(p, <<>>)
        ELSE and_then(separated_tail(sep, f, s, r.pos), LAMBDA t :
             Ok(t.pos, <<r.val>> \o t.val)))

\* separated_list1(sep, f): the first element is required.
separated_list1(sep(_, _), f(_, _), s, p) ==
    and_then(f(s, p), LAMBDA r :
    and_then(separated_tail(sep, f, s, r.pos), LAMBDA t :
    Ok(t.pos, <<r.val>> \o t.val)))

\* --------------------------------------------------- src/src/parser.rs
Property(k, v) == [key |-> k, value |-> v]

consume_whitespaces(s, p) ==
    and_then(many0(LAMBDA s1, p1 : one_of(Whitespaces, s1, p1), s, p),
             LAMBDA r : Ok(r.pos, <<>>))

consume_eol(s, p) ==
    and_then(alt3(LAMBDA s1, p1 :
                      complete(LAMBDA s2, p2 : tag(<<CR, LF>>, s2, p2), s1, p1),
                  LAMBDA s1, p1 : tag(<<CR>>, s1, p1),
                  LAMBDA s1, p1 : tag(<<LF>>, s1, p1),
                  s, p),
             LAMBDA r : Ok(r.pos, <<>>))

consume_eol_or_eof(s, p) ==
    alt2(LAMBDA s1, p1 : value(<<>>, eof, s1, p1), consume_eol, s, p)

blank_line(s, p) ==
    and_then(consume_whitespaces(s, p), LAMBDA r :
    consume_eol_or_eof(s, r.pos))

eol(c) == c = CR \/ c = LF

\* comment_line that knows '#' only.
comment_line_hash_only(s, p) ==
    and_then(consume_whitespaces(s, p), LAMBDA r1 :
    and_then(one_of({HASH}, s, r1.pos), LAMBDA r2 :
    and_then(take_till(eol, s, r2.pos), LAMBDA r3 :
    consume_eol_or_eof(s, r3.pos))))

comment_line(s, p) ==
    and_then(consume_whitespaces(s, p), LAMBDA r1 :
    and_then(one_of(CommentMarks, s, r1.pos), LAMBDA r2 :
    and_then(take_till(eol, s, r2.pos), LAMBDA r3 :
    consume_eol_or_eof(s, r3.pos))))

\* consume_line that leaves the whitespace of the next line in place.
consume_line_keep_indent(s, p) ==
    and_then(tag(<<BSLASH>>, s, p), LAMBDA r1 :
    and_then(consume_eol(s, r1.pos), LAMBDA r2 :
    Ok(r2.pos, <<>>)))

consume_line(s, p) ==
    and_then(tag(<<BSLASH>>, s, p), LAMBDA r1 :
    and_then(consume_eol(s, r1.pos), LAMBDA r2 :
    and_then(consume_whitespaces(s, r2.pos), LAMBDA r3 :
    Ok(r3.pos, <<>>))))

\* many1(consume_line), the separator of the three separated lists.
consume_lines(s, p) == many1(consume_line, s, p)

consume_whitespaces_and_lines(s, p) ==
    and_then(separated_list0(consume_lines, consume_whitespaces, s, p),
             LAMBDA r : Ok(r.pos, <<>>))

char_in_key(s, p) == none_of(NotInKey, s, p)

char_in_value(s, p) == none_of(NotInValue, s, p)

\* The table without its entry for t.
escaped_char_no_tab(v) ==
    CASE v = LOWER_N -> LF
      [] v = LOWER_F -> FF
      [] v = LOWER_R -> CR
      [] v = BSLASH -> BSLASH
      [] OTHER -> v

escaped_char_to_char(v) ==
    CASE v = LOWER_T -> TAB
      [] v = LOWER_N -> LF
      [] v = LOWER_F -> FF
      [] v = LOWER_R -> CR
      [] v = BSLASH -> BSLASH
      [] OTHER -> v

\* escape_in_key_or_value with none_of("\r\n"): \u is the character u.
escape_accepting_u(s, p) ==
    and_then(tag(<<BSLASH>>, s, p), LAMBDA r1 :
    and_then(none_of({CR, LF}, s, r1.pos), LAMBDA r2 :
    Ok(r2.pos, escaped_char_to_char(r2.val))))

escape_in_key_or_value(s, p) ==
    and_then(tag(<<BSLASH>>, s, p), LAMBDA r1 :
    and_then(none_of(NotEscapable, s, r1.pos), LAMBDA r2 :
    Ok(r2.pos, escaped_char_to_char(r2.val))))

one_char_in_key(s, p) == alt2(escape_in_key_or_value, char_in_key, s, p)

one_char_in_value(s, p) == alt2(escape_in_key_or_value, char_in_value, s, p)

\* consume_key with the lists of consume_value: a key of no character.
consume_key_maybe_empty(s, p) ==
    and_then(separated_list0(consume_lines,
                             LAMBDA s1, p1 : many0(one_char_in_key, s1, p1),
                             s, p),
             LAMBDA r : Ok(r.pos, Flatten(r.val)))

consume_key(s, p) ==
    and_then(separated_list1(consume_lines,
                             LAMBDA s1, p1 : many1(one_char_in_key, s1, p1),
                             s, p),
             LAMBDA r : Ok(r.pos, Flatten(r.val)))

consume_value(s, p) ==
    and_then(separated_list0(consume_lines,
                             LAMBDA s1, p1 : many0(one_char_in_value, s1, p1),
                             s, p),
             LAMBDA r : Ok(r.pos, Flatten(r.val)))

\* Every separator in a row is taken, not one.
separators_greedy(s, p) ==
    many0(LAMBDA s1, p1 : one_of(Separators, s1, p1), s, p)

\* opt(complete(one_of(":=")))
optional_separator(s, p) ==
    opt(LAMBDA s1, p1 :
            complete(LAMBDA s2, p2 : one_of(Separators, s2, p2), s1, p1),
        s, p)

\* kv_line that takes the value for the key and the key for the value.
kv_line_swapped(s, p) ==
    and_then(consume_whitespaces_and_lines(s, p), LAMBDA r1 :
    and_then(consume_key(s, r1.pos), LAMBDA r2 :
    and_then(consume_whitespaces_and_lines(s, r2.pos), LAMBDA r3 :
    and_then(optional_separator(s, r3.pos), LAMBDA r4 :
    and_then(consume_whitespaces_and_lines(s, r4.pos), LAMBDA r5 :
    and_then(consume_value(s, r5.pos), LAMBDA r6 :
    and_then(consume_eol_or_eof(s, r6.pos), LAMBDA r7 :
    Ok(r7.pos, Property(r6.val, r2.val)))))))))

kv_line(s, p) ==
    and_then(consume_whitespaces_and_lines(s, p), LAMBDA r1 :
    and_then(consume_key(s, r1.pos), LAMBDA r2 :
    and_then(consume_whitespaces_and_lines(s, r2.pos), LAMBDA r3 :
    and_then(optional_separator(s, r3.pos), LAMBDA r4 :
    and_then(consume_whitespaces_and_lines(s, r4.pos), LAMBDA r5 :
    and_then(consume_value(s, r5.pos), LAMBDA r6 :
    and_then(consume_eol_or_eof(s, r6.pos), LAMBDA r7 :
    Ok(r7.pos, Property(r2.val, r6.val)))))))))

\* many_till(f, eof), one turn of its loop at position i: the end of the input
\* returns; otherwise f runs, and an f that fails or that succeeds without
\* consuming (the infinite loop check) is the error of the whole parse.
many_till_turn(f(_, _), g(_, _), s, i) ==
    bind(g(s, i), LAMBDA e :
        IF e.ok THEN [kind |-> "done", pos |-> e.pos, val |-> <<>>]
        ELSE bind(f(s, i), LAMBDA r :
                IF ~r.ok THEN [kind |-> "error", pos |-> i, val |-> <<>>]
                ELSE IF r.pos = i THEN [kind |-> "error", pos |-> r.pos, val |-> <<>>]
                ELSE [kind |-> "more", pos |-> r.pos, val |-> r.val]))

\* The alternatives of _fparser: a comment, a blank line, or an optional
\* key-value line.
fparser_line(s, p) ==
    alt3(LAMBDA s1, p1 :
             value(None, LAMBDA s2, p2 : complete(comment_line, s2, p2), s1, p1),
         LAMBDA s1, p1 :
             value(None, LAMBDA s2, p2 : complete(blank_line, s2, p2), s1, p1),
         LAMBDA s1, p1 :
             opt(LAMBDA s2, p2 : complete(kv_line, s2, p2), s1, p1),
         s, p)

\* A driver that skips a byte where no alternative consumes anything.
fparser_turn_skip_byte(s, i) ==
    bind(many_till_turn(fparser_line, eof, s, i), LAMBDA t :
        IF t.kind = "error" THEN [kind |-> "more", pos |-> i + 1, val |-> None]
        ELSE t)

\* A driver without the check of what a turn consumed: it pushes the None of
\* opt(kv_line) and tries again at the same position.
fparser_turn_retry(s, i) ==
    bind(many_till_turn(fparser_line, eof, s, i), LAMBDA t :
        IF t.kind = "error" THEN [kind |-> "more", pos |-> i, val |-> None]
        ELSE t)

\* _fparser: one turn of many_till(alt((comment, blank, opt(kv_line))), eof).
fparser_turn(s, i) == many_till_turn(fparser_line, eof, s, i)

\* --------------------------------------------------- src/src/lib.rs
\* HashMap::insert: the key maps to the value, whatever it mapped to before.
\* A map that keeps the value a key already has.
insert_keep_first(m, k, v) ==
    [x \in (DOMAIN m) \cup {k} |-> IF x \in DOMAIN m THEN m[x] ELSE v]

insert(m, k, v) == [x \in (DOMAIN m) \cup {k} |-> IF x = k THEN v ELSE m[x]]

\* ------------------------------------------------------------- bounds
\* The longest input buffer handed to parse.
MaxLen == 4
\* The longest input of key-value lines handed to parse.
MaxLenKV == 6
\* The longest one-line input handed to parse.
MaxLenSep == 5
\* The longest input handed to consume_key and consume_value.
MaxLenToken == 5
\* The longest entry sequence handed to to_map.
MaxProps == 3

\* The bytes the inputs are drawn from: every class of byte the grammar
\* tells apart has a member.
Alphabet == {LOWER_A, EQUALS, SP, LF, CR, BSLASH, LOWER_U, HASH}
\* ... for the termination of the loop.
AlphabetFair == {LOWER_A, EQUALS, SP, LF, BSLASH, HASH}
\* ... for the inputs of comments and blank lines.
AlphabetComments == {LOWER_A, SP, LF, CR, BSLASH, HASH, BANG}
\* ... for the inputs of key=value lines.
AlphabetKV == {LOWER_A, LOWER_B, EQUALS, SP, LF}
\* ... for the separator of one line.
AlphabetSep == {LOWER_A, EQUALS, COLON, SP, BSLASH, LF}
\* ... for the escapes of a key.
AlphabetEscapes == {LOWER_A, LOWER_T, LOWER_U, BSLASH, COLON, EQUALS, SP}
\* ... for the continuations of a key or a value.
AlphabetContinuations == {LOWER_A, LOWER_B, BSLASH, LF, CR, SP}

\* The entries to_map is given: keys and values, the empty string among them.
Strings == {<<>>, <<LOWER_A>>, <<LOWER_B>>}
Entries == [key : Strings, value : Strings]

\* All byte sequences over alphabet of length 0..n.
SeqsUpTo(alphabet, n) == UNION {[1..k -> alphabet] : k \in 0..n}

\* -------------------------------------------------------------- state
VARIABLES
    input,  \* parse, consume_key, consume_value: the byte buffer
    pos,    \* many_till: the position i of the loop
    res,    \* many_till: the Vec<Option<Property>> collected so far
    pc,     \* where the call is
    out,    \* what the call returned
    spans,  \* history: the slice each turn of many_till consumed, and by which rule
    props,  \* to_map: the Vec<Property> it is given
    idx,    \* to_map: the index of the for loop
    map     \* to_map: the HashMap

vars == <<input, pos, res, pc, out, spans, props, idx, map>>

NoResult == [ok |-> FALSE, val |-> <<>>]

\* The empty HashMap.
EmptyMap == [k \in {} |-> <<>>]

\* The rule of fparser_line that matches at p (alt takes the first).
RuleAt(s, p) ==
    IF comment_line(s, p).ok THEN "comment"
    ELSE IF blank_line(s, p).ok THEN "blank"
    ELSE "kv"

\* No call has been made yet.
Init ==
    /\ input = <<>>
    /\ pos = 1
    /\ res = <<>>
    /\ pc = "idle"
    /\ out = NoResult
    /\ spans = <<>>
    /\ props = <<>>
    /\ idx = 1
    /\ map = EmptyMap

\* The caller calls parse, consume_key or consume_value (start) on a buffer
\* of at most n bytes over alphabet.
Call(alphabet, n, start) ==
    /\ pc = "idle"
    /\ input' \in SeqsUpTo(alphabet, n)
    /\ pc' = start
    /\ UNCHANGED <<pos, res, out, spans, props, idx, map>>

\* parse(input) on any buffer over Alphabet.
CallParse == Call(Alphabet, MaxLen, "loop")

\* many_till reaches the end of the input: _fparser returns the collected
\* list, parser flattens it, parse returns Ok(v).
ParseEof ==
    /\ pc = "loop"
    /\ eof(input, pos).ok  \* many_till tries eof before the alternatives
    /\ fparser_turn(input, pos).kind = "done"
    /\ pc' = "done"
    /\ out' = [ok |-> TRUE, val |-> Flatten(res)]
    /\ UNCHANGED <<input, pos, res, spans, props, idx, map>>

\* One line (comment, blank or key-value) is consumed and its value pushed.
ParseLine ==
    /\ pc = "loop"
    /\ \E t \in {fparser_turn(input, pos)} :
        /\ t.kind = "more"
        /\ res' = Append(res, t.val)
        /\ pos' = t.pos
        /\ spans' = Append(spans, [rule |-> RuleAt(input, pos),
                                   from |-> pos, to |-> t.pos - 1])
    /\ UNCHANGED <<input, pc, out, props, idx, map>>

\* No alternative consumes anything: many_till's error is returned by
\* _fparser, parser and parse in turn; the collected list is dropped.
ParseError ==
    /\ pc = "loop"
    /\ fparser_turn(input, pos).kind = "error"
    /\ pc' = "done"
    /\ out' = [ok |-> FALSE, val |-> <<>>]
    /\ res' = <<>>
    /\ UNCHANGED <<input, pos, spans, props, idx, map>>

\* A call of parse(input), turn by turn of its loop.
Next == CallParse \/ ParseEof \/ ParseLine \/ ParseError

Spec == Init /\ [][Next]_vars

\* The same call on the inputs of each group of claims.
CallParseFair == Call(AlphabetFair, MaxLen, "loop")
CallParseComments == Call(AlphabetComments, MaxLen, "loop")
CallParseKV == Call(AlphabetKV, MaxLenKV, "loop")
CallParseSep == Call(AlphabetSep, MaxLenSep, "loop")

NextFair == CallParseFair \/ ParseEof \/ ParseLine \/ ParseError
NextComments == CallParseComments \/ ParseEof \/ ParseLine \/ ParseError
NextKV == CallParseKV \/ ParseEof \/ ParseLine \/ ParseError
NextSep == CallParseSep \/ ParseEof \/ ParseLine \/ ParseError

\* many_till is a plain loop of one thread: a turn that can run does run.
FairSpec == Init /\ [][NextFair]_vars /\ WF_vars(NextFair)
SpecComments == Init /\ [][NextComments]_vars
SpecKV == Init /\ [][NextKV]_vars
SpecSep == Init /\ [][NextSep]_vars

\* ------------------------------------------- consume_key, consume_value
\* What a token rule returned: the rest of the input (as a position) and the
\* string, or an error.
TokenResult(r) == [ok |-> r.ok, pos |-> r.pos, val |-> r.val]

\* consume_key(input)
ConsumeKey ==
    /\ pc = "token"
    /\ pc' = "key"
    /\ out' = TokenResult(consume_key(input, 1))
    /\ UNCHANGED <<input, pos, res, spans, props, idx, map>>

\* consume_value(input)
ConsumeValue ==
    /\ pc = "token"
    /\ pc' = "value"
    /\ out' = TokenResult(consume_value(input, 1))
    /\ UNCHANGED <<input, pos, res, spans, props, idx, map>>

CallTokenEscapes == Call(AlphabetEscapes, MaxLenToken, "token")
CallTokenContinuations == Call(AlphabetContinuations, MaxLenToken, "token")

NextEscapes == CallTokenEscapes \/ ConsumeKey \/ ConsumeValue
NextContinuations == CallTokenContinuations \/ ConsumeKey \/ ConsumeValue

SpecEscapes == Init /\ [][NextEscapes]_vars
SpecContinuations == Init /\ [][NextContinuations]_vars

\* ---------------------------------------------------------------- to_map
\* The caller calls to_map(props); the map starts empty.
CallToMap ==
    /\ pc = "idle"
    /\ props' \in SeqsUpTo(Entries, MaxProps)
    /\ map' = EmptyMap
    /\ idx' = 1
    /\ pc' = "fold"
    /\ UNCHANGED <<input, pos, res, out, spans>>

\* for prop in props.iter() { map.insert(prop.key.clone(), prop.value.clone()) }
ToMapInsert ==
    /\ pc = "fold"
    /\ idx <= Len(props)
    /\ map' = insert(map, props[idx].key, props[idx].value)
    /\ idx' = idx + 1
    /\ UNCHANGED <<input, pos, res, pc, out, spans, props>>

\* The loop is over: to_map returns the map.
ToMapReturn ==
    /\ pc = "fold"
    /\ idx > Len(props)
    /\ pc' = "mapped"
    /\ out' = [ok |-> TRUE, val |-> map]
    /\ UNCHANGED <<input, pos, res, spans, props, idx, map>>

NextToMap == CallToMap \/ ToMapInsert \/ ToMapReturn

SpecToMap == Init /\ [][NextToMap]_vars

\* ------------------------------------------------------------ claims
\* No alternative of the driver matches at p.
NoAlternativeAt(s, p) ==
    ~comment_line(s, p).ok /\ ~blank_line(s, p).ok /\ ~kv_line(s, p).ok

\* C1. No-progress guard: when the driver stands at a position that is not
\* the end of the input and none of comment_line, blank_line and kv_line
\* matches there, its next step returns an error from parse: it does not stay
\* in the loop (no retry) and does not move to a later position (no skip).
C1_NoProgressGuard ==
    [][(pc = "loop" /\ pos <= Len(input) /\ NoAlternativeAt(input, pos))
        => (pc' = "done" /\ ~out'.ok /\ pos' = pos /\ spans' = spans)]_vars

\* C1's case: parse has returned an error at a stuck position that follows
\* at least one consumed line.
C1_Witness ==
    /\ pc = "done" /\ ~out.ok
    /\ pos > 1 /\ pos <= Len(input)
    /\ NoAlternativeAt(input, pos)

\* C2. Termination: parse returns, and the driver never collects more items
\* than the input has bytes (each turn that goes on consumes at least one).
C2_Terminates ==
    /\ <>(pc = "done")
    /\ [](Len(res) <= Len(input) /\ Len(res) < pos)

\* C2's case: parse has returned after as many turns as the input has bytes.
C2_Witness ==
    /\ pc = "done" /\ out.ok
    /\ Len(input) >= 3
    /\ Len(res) = Len(input)

\* The first byte at or after p that follows the leading whitespace and
\* continuations is a separator.
BareSeparatorAt(s, p) ==
    LET q == consume_whitespaces_and_lines(s, p).pos IN
    q <= Len(s) /\ s[q] \in Separators

\* The positions at which the driver started a line.
LineStarts == {spans[k].from : k \in 1..Len(spans)} \cup {pos}

\* C6. No empty key: every Entry parse returns has a key of at least one
\* character, and a line (as the driver meets it) whose first byte after
\* leading whitespace and continuations is ':' or '=' makes parse return an
\* error.
C6_NoEmptyKey ==
    pc = "done" =>
        /\ out.ok => \A k \in 1..Len(out.val) : Len(out.val[k].key) >= 1
        /\ (\E p \in LineStarts : p <= Len(input) /\ BareSeparatorAt(input, p))
              => ~out.ok

\* C6's case: after a key-value line, a line that starts with whitespace and
\* then a bare separator has made parse fail.
C6_Witness ==
    /\ pc = "done" /\ ~out.ok
    /\ \E k \in 1..Len(spans) : spans[k].rule = "kv"
    /\ BareSeparatorAt(input, pos)
    /\ input[pos] \notin Separators

\* Byte i lies in a slice a comment_line consumed.
InComment(i) ==
    \E k \in 1..Len(spans) :
        spans[k].rule = "comment" /\ spans[k].from <= i /\ i <= spans[k].to

\* The number of backslashes that end right before byte i.
RECURSIVE BackslashesBefore(_, _)
BackslashesBefore(s, i) ==
    IF i > 1 /\ s[i - 1] = BSLASH THEN 1 + BackslashesBefore(s, i - 1) ELSE 0

\* Byte i is a backslash followed by u, outside the comments.
BackslashUAt(i) ==
    /\ i < Len(input)
    /\ input[i] = BSLASH /\ input[i + 1] = LOWER_U
    /\ ~InComment(i)

\* C10 as stated: a backslash immediately followed by u outside a comment
\* makes parse return an error.
C10_AnyBackslashU ==
    (pc = "done" /\ \E i \in 1..Len(input) : BackslashUAt(i)) => ~out.ok

\* C10 amended: a backslash that is not itself escaped (an even number of
\* backslashes precedes it) and is immediately followed by u, outside a
\* comment, makes parse return an error, and no Entry is returned.
C10_UnescapedBackslashU ==
    (pc = "done" /\ \E i \in 1..Len(input) :
                        BackslashUAt(i) /\ BackslashesBefore(input, i) % 2 = 0)
        => (~out.ok /\ out.val = <<>>)

\* C10's case: a \u in a line after a key-value line has made parse fail.
C10_Witness ==
    /\ pc = "done" /\ ~out.ok
    /\ \E k \in 1..Len(spans) : spans[k].rule = "kv"
    /\ \E i \in pos..Len(input) :
          BackslashUAt(i) /\ BackslashesBefore(input, i) % 2 = 0

\* ------------------------------------------ the lines of an input, by hand
\* The end of the physical line that starts at p: the first CR or LF at or
\* after p, or the end of the input.
RECURSIVE LineEnd(_, _)
LineEnd(s, p) ==
    IF p > Len(s) \/ s[p] \in {CR, LF} THEN p ELSE LineEnd(s, p + 1)

\* The first position in p..q that holds no whitespace (q when all do).
RECURSIVE SkipBlanks(_, _, _)
SkipBlanks(s, p, q) ==
    IF p < q /\ s[p] \in Whitespaces THEN SkipBlanks(s, p + 1, q) ELSE p

\* The first position in p..q that holds a byte that ends a plain key.
RECURSIVE PlainKeyEnd(_, _, _)
PlainKeyEnd(s, p, q) ==
    IF p < q /\ s[p] \notin NotInKey THEN PlainKeyEnd(s, p + 1, q) ELSE p

\* The positions at which a physical line starts: the first byte, and the
\* byte after each CR and each LF (the empty line between the CR and the LF of
\* "\r\n" is one more blank line, which adds nothing).
PhysicalLineStarts(s) ==
    {1} \cup {p \in 2..(Len(s) + 1) : s[p - 1] \in {CR, LF}}

\* The physical line at p holds whitespace only.
IsBlankLine(s, p) == SkipBlanks(s, p, LineEnd(s, p)) = LineEnd(s, p)

\* The physical line at p is whitespace, '#' or '!', and anything.
IsCommentLine(s, p) ==
    LET q == LineEnd(s, p)
        f == SkipBlanks(s, p, q)
    IN f < q /\ s[f] \in CommentMarks

\* The physical line at p read as key=value: whitespace, a key of plain
\* characters, whitespace, '=', whitespace, and the value up to the end of
\* the line.
KeyValueOf(s, p) ==
    LET q == LineEnd(s, p)
        f == SkipBlanks(s, p, q)
        k == PlainKeyEnd(s, f, q)
        g == SkipBlanks(s, k, q)
        h == SkipBlanks(s, g + 1, q)
    IN [shaped |-> /\ f < k
                   /\ s[f] \notin CommentMarks
                   /\ g < q /\ s[g] = EQUALS
                   /\ \A i \in h..(q - 1) : s[i] # BSLASH,
        entry |-> Property(SubSeq(s, f, k - 1), SubSeq(s, h, q - 1))]

\* The input holds key=value lines and blank lines only.
OnlyKeyValueLines(s) ==
    \A p \in PhysicalLineStarts(s) : IsBlankLine(s, p) \/ KeyValueOf(s, p).shaped

\* The entries of the key=value lines from p on, in the order of the input.
RECURSIVE EntriesFrom(_, _)
EntriesFrom(s, p) ==
    LET q == LineEnd(s, p)
        here == IF IsBlankLine(s, p) THEN <<>> ELSE <<KeyValueOf(s, p).entry>>
    IN IF q > Len(s) THEN here ELSE here \o EntriesFrom(s, q + 1)

\* C3. On an input of key=value lines (and blank lines) separated by ends of
\* line, parse returns one Entry per key=value line, in the order of the
\* input, with the text before the '=' as key and the text after it as value,
\* the whitespace around key and '=' left out.
C3_KeyValueLines ==
    (pc = "done" /\ OnlyKeyValueLines(input))
        => (out.ok /\ out.val = EntriesFrom(input, 1))

\* C3's case: two key=value lines with different keys, parsed in order.
C3_Witness ==
    /\ pc = "done" /\ out.ok
    /\ OnlyKeyValueLines(input)
    /\ Len(out.val) = 2
    /\ out.val[1].key # out.val[2].key
    /\ out.val[2].value # <<>>

\* Every physical line of the input is a blank line or a comment line.
OnlyBlankAndCommentLines(s) ==
    \A p \in PhysicalLineStarts(s) : IsBlankLine(s, p) \/ IsCommentLine(s, p)

\* C5. On an input of blank lines and comment lines only (the empty input
\* included), parse returns Ok with no Entry.
C5_BlankAndCommentOnly ==
    (pc = "done" /\ OnlyBlankAndCommentLines(input))
        => (out.ok /\ out.val = <<>>)

\* C5's case: a '!' comment with a body and a blank line, both consumed.
C5_Witness ==
    /\ pc = "done" /\ out.ok
    /\ OnlyBlankAndCommentLines(input)
    /\ \E k \in 1..Len(spans) : spans[k].rule = "blank"
    /\ \E k \in 1..Len(spans) :
          /\ spans[k].rule = "comment"
          /\ \E i \in spans[k].from..spans[k].to :
                input[i] = BANG /\ i < spans[k].to /\ input[i + 1] = LOWER_A

\* ---------------------------------------------------- C4: to_map
\* The keys of a sequence of entries.
KeysOf(ps) == {ps[i].key : i \in 1..Len(ps)}

\* The index of the last entry of ps with key k.
LastIndex(ps, k) ==
    CHOOSE i \in 1..Len(ps) :
        ps[i].key = k /\ \A j \in (i + 1)..Len(ps) : ps[j].key # k

\* C4. to_map is a fold with last-write-wins: while it folds, the map holds
\* the keys of the entries folded so far, each with the value of its last
\* occurrence among them; the map it returns holds exactly the keys of the
\* sequence, each with the value of its last occurrence, so its size is the
\* number of distinct keys and at most the length of the sequence.
C4_LastWriteWins ==
    /\ pc = "fold" =>
          LET done == SubSeq(props, 1, idx - 1) IN
          /\ DOMAIN map = KeysOf(done)
          /\ \A k \in DOMAIN map : map[k] = done[LastIndex(done, k)].value
    /\ pc = "mapped" =>
          /\ DOMAIN out.val = KeysOf(props)
          /\ \A k \in KeysOf(props) : out.val[k] = props[LastIndex(props, k)].value
          /\ Cardinality(DOMAIN out.val) = Cardinality(KeysOf(props))
          /\ Cardinality(DOMAIN out.val) <= Len(props)

\* C4's case: a key occurs twice with different values among three entries,
\* and to_map has returned.
C4_Witness ==
    /\ pc = "mapped"
    /\ Len(props) = 3
    /\ props[1].key = props[3].key
    /\ props[1].value # props[3].value
    /\ props[2].key # props[1].key
    /\ Cardinality(DOMAIN out.val) = 2

\* ---------------------------------------------------- C7: escapes in keys
\* The character an escaped byte c stands for, as the specification lists it.
EscapeTable(c) ==
    IF c = LOWER_T THEN TAB
    ELSE IF c = LOWER_N THEN LF
    ELSE IF c = LOWER_F THEN FF
    ELSE IF c = LOWER_R THEN CR
    ELSE c

\* A key read by hand from p: a plain key character gives itself, a
\* backslash and a byte c other than u, CR and LF give EscapeTable(c), and
\* the key ends before anything else.  pos is where it ends.
RECURSIVE KeyByHand(_, _)
KeyByHand(s, p) ==
    IF p + 1 <= Len(s) /\ s[p] = BSLASH /\ s[p + 1] \notin {LOWER_U, CR, LF}
    THEN LET rest == KeyByHand(s, p + 2) IN
         [pos |-> rest.pos, val |-> <<EscapeTable(s[p + 1])>> \o rest.val]
    ELSE IF p <= Len(s) /\ s[p] \notin NotInKey
    THEN LET rest == KeyByHand(s, p + 1) IN
         [pos |-> rest.pos, val |-> <<s[p]>> \o rest.val]
    ELSE [pos |-> p, val |-> <<>>]

\* No backslash of s is followed by CR or LF.
NoContinuation(s) ==
    \A i \in 1..(Len(s) - 1) : s[i] = BSLASH => s[i + 1] \notin {CR, LF}

\* C7. Escapes in keys: consume_key reads each backslash-and-byte pair (the
\* byte not u, CR or LF) as the one character of the table and goes on with
\* the key after it; the key ends only at an unescaped ':', '=', whitespace,
\* end of line, \u, or the end of the input.
C7_EscapesInKey ==
    (pc = "key" /\ NoContinuation(input)) =>
        LET k == KeyByHand(input, 1) IN
        IF k.pos = 1 THEN ~out.ok
        ELSE out.ok /\ out.pos = k.pos /\ out.val = k.val

\* C7's case: a key with an escaped ':', '=' or space in its middle, and a
\* separator after it that ends it (as in key\:with\:colons=value).
C7_Witness ==
    /\ pc = "key" /\ out.ok
    /\ \E i \in 2..(Len(input) - 2) :
          /\ input[i] = BSLASH
          /\ input[i - 1] # BSLASH
          /\ input[i + 1] \in {COLON, EQUALS, SP}
          /\ out.pos > i + 2
          /\ out.val[i] = input[i + 1]
    /\ out.pos <= Len(input)
    /\ input[out.pos] \in Separators

\* ------------------------------------------- C8: logical line continuation
\* The position after the whitespace that starts at p.
RECURSIVE AfterBlanks(_, _)
AfterBlanks(s, p) ==
    IF p <= Len(s) /\ s[p] \in Whitespaces THEN AfterBlanks(s, p + 1) ELSE p

\* The position after the continuation that starts at p: a backslash, one
\* end of line ("\r\n", "\r" or "\n") and the whitespace after it; p when no
\* continuation starts at p.
AfterContinuation(s, p) ==
    IF p + 1 <= Len(s) /\ s[p] = BSLASH /\ s[p + 1] \in {CR, LF}
    THEN IF s[p + 1] = CR /\ p + 2 <= Len(s) /\ s[p + 2] = LF
         THEN AfterBlanks(s, p + 3)
         ELSE AfterBlanks(s, p + 2)
    ELSE p

\* s from p on with its continuations taken out, when it is made of
\* continuations and of characters other than those of stop.
RECURSIVE Joined(_, _, _)
Joined(s, p, stop) ==
    IF p > Len(s) THEN [ok |-> TRUE, val |-> <<>>]
    ELSE IF AfterContinuation(s, p) > p THEN Joined(s, AfterContinuation(s, p), stop)
    ELSE IF s[p] \in stop THEN [ok |-> FALSE, val |-> <<>>]
    ELSE LET rest == Joined(s, p + 1, stop) IN
         [ok |-> rest.ok, val |-> <<s[p]>> \o rest.val]

\* C8. Logical line continuation: on an input made of runs of plain
\* characters with runs of continuations between them, consume_key (the
\* input starting and ending with a key character) and consume_value consume
\* it all and return the runs of characters joined: a continuation adds no
\* character, neither its end of line nor the whitespace after it.
C8_Continuation ==
    /\ pc = "key" =>
          LET j == Joined(input, 1, NotInKey) IN
          (/\ j.ok /\ input # <<>>
           /\ input[1] \notin NotInKey /\ input[Len(input)] \notin NotInKey)
            => (out.ok /\ out.pos = Len(input) + 1 /\ out.val = j.val)
    /\ pc = "value" =>
          LET j == Joined(input, 1, NotInValue) IN
          j.ok => (out.ok /\ out.pos = Len(input) + 1 /\ out.val = j.val)

\* C8's case: consume_key has joined two runs across a continuation that is
\* followed by whitespace (as in abc\ + end of line + "   def").
C8_Witness ==
    /\ pc = "key" /\ out.ok
    /\ Joined(input, 1, NotInKey).ok
    /\ out.pos = Len(input) + 1
    /\ \E i \in 2..(Len(input) - 3) :
          /\ input[i] = BSLASH
          /\ input[i + 1] \in {CR, LF}
          /\ input[i + 2] \in Whitespaces
          /\ out.val = SubSeq(input, 1, i - 1) \o SubSeq(input, i + 3, Len(input))

\* ---------------------------------------------------- C9: the separator
\* The position after the whitespace and continuations that start at p.
RECURSIVE AfterSkips(_, _)
AfterSkips(s, p) ==
    IF p <= Len(s) /\ s[p] \in Whitespaces THEN AfterSkips(s, p + 1)
    ELSE IF AfterContinuation(s, p) > p THEN AfterSkips(s, AfterContinuation(s, p))
    ELSE p

\* One logical line read by hand: whitespace and continuations, a key of
\* plain characters, whitespace and continuations, at most one ':' or '=',
\* whitespace and continuations, and a value of plain characters up to the
\* end of the input or to the one end of line that ends the input.  Without
\* a separator and with a value, whitespace (not a continuation alone, which
\* would continue the key) follows the key.
LineByHand(s) ==
    LET a == AfterSkips(s, 1)
        b == PlainKeyEnd(s, a, Len(s) + 1)
        c == AfterSkips(s, b)
        sep == c <= Len(s) /\ s[c] \in Separators
        d == IF sep THEN c + 1 ELSE c
        e == AfterSkips(s, d)
        q == LineEnd(s, e)
    IN [shaped |-> /\ a < b
                   /\ s[a] \notin CommentMarks
                   /\ \A i \in e..(q - 1) : s[i] # BSLASH
                   /\ \/ q >= Len(s)
                      \/ q = Len(s) - 1 /\ s[q] = CR /\ s[q + 1] = LF
                   /\ (~sep /\ e < q) => s[b] \in Whitespaces,
        sep |-> sep,
        gap |-> e - d,
        entry |-> Property(SubSeq(s, a, b - 1), SubSeq(s, e, q - 1))]

\* C9. Separator handling: on one logical line of a plain key and a plain
\* value, kv_line takes at most one ':' or '=' after the key as the
\* separator; without one, whitespace separates key and value (or the value
\* is empty); a ':' or '=' after the separator and the whitespace that follows
\* it starts the value; the whitespace and continuations between key,
\* separator and value are in neither.
C9_Separator ==
    (pc = "done" /\ LineByHand(input).shaped)
        => (out.ok /\ out.val = <<LineByHand(input).entry>>)

\* C9's case: a separator, then whitespace, then a value that starts with a
\* second separator.
C9_Witness ==
    /\ pc = "done" /\ out.ok
    /\ LineByHand(input).shaped
    /\ LineByHand(input).sep
    /\ LineByHand(input).gap > 0
    /\ Len(out.val) = 1
    /\ out.val[1].value # <<>>
    /\ out.val[1].value[1] \in Separators

====
